---- MODULE Spec2Model ----
(***************************************************************************)
(* A model of the macOS desktop simulation: the page component (DockDemo), *)
(* the window manager (WindowManager), the window frame (MacWindow) and    *)
(* the dock (MacOSDock).                                                   *)
(*                                                                         *)
(* React is modelled by what it does to the component state: an event      *)
(* handler queues state updates, the components render (a state update     *)
(* made while rendering makes the component render again), and then the    *)
(* effects whose dependencies changed run, with the values of the render   *)
(* they were created in.  One action is one task of the event loop: an     *)
(* event handler together with the renders and effects React runs before   *)
(* the task ends, a later task in which React renders the updates that an  *)
(* effect, a continuous event, a timer or an animation frame has queued,   *)
(* or the task in which React runs the passive effects of such a render.   *)
(*                                                                         *)
(* Window coordinates are kept in ninths of a pixel, so that 520 / 0.45    *)
(* and 360 / 0.45 are whole numbers.                                       *)
(***************************************************************************)
EXTENDS Integers, Sequences, FiniteSets, TLC

\* Number of dock entries (a prefix of sampleApps) the user clicks on.
NumApps == 2

\* Number of dock entries whose windows are also dragged.
NumDragApps == 2

\* Number of dock icons (a prefix of sampleApps) the dock shows.
NumIcons == 3

\* Number of pointer places over the dock (a prefix of DockPointerPlaces).
NumDockPointers == 1

\* Number of pointer moves onto, over and off the dock in a behaviour.
MaxMoves == 2

\* Number of animation frame ids before the model reuses one.
FrameIdMod == 3

\* Number of animation frames that run before React renders the updates of
\* the frames before them.
MaxFramesPerRender == 2

\* Number of pointer places (a prefix of PointerPlaces) a drag moves through.
NumPointers == 1

\* Number of places (a prefix of GrabPlaces) where a title bar is grabbed
\* in the specification of one frame.
NumGrabs == 1

\* The largest mouseX, in pixels, the pointer is first put at in SpecMag.
MaxPointerX == 200

\* Number of dock entries (a prefix of sampleApps) that are opened one after
\* another in SpecOpen.
NumOpenApps == 7

\* Number of identifiers (a prefix of UnknownNames) clicked that are in no
\* application list.
NumUnknownIds == 2

\* Number of dock entries that are clicked next to the unknown identifiers.
NumGetApps == 1

\* n pixels, in ninths of a pixel.
Px(n) == 9 * n

Max(a, b) == IF a >= b THEN a ELSE b

Min(a, b) == IF a <= b THEN a ELSE b

\* The dock entries of the page, in order.
sampleApps ==
  << [id |-> "finder",     name |-> "Finder",     icon |-> "finder.png"],
     [id |-> "calculator", name |-> "Calculator", icon |-> "calculator.png"],
     [id |-> "terminal",   name |-> "Terminal",   icon |-> "terminal.png"],
     [id |-> "mail",       name |-> "Mail",       icon |-> "mail.png"],
     [id |-> "notes",      name |-> "Notes",      icon |-> "notes.png"],
     [id |-> "safari",     name |-> "Safari",     icon |-> "safari.png"],
     [id |-> "photos",     name |-> "Photos",     icon |-> "photos.png"],
     [id |-> "music",      name |-> "Music",      icon |-> "music.png"],
     [id |-> "calendar",   name |-> "Calendar",   icon |-> "calendar.png"] >>

\* The identifiers of the dock entries that are clicked in this model.
AppIds == { sampleApps[i].id : i \in 1..Min(NumApps, Len(sampleApps)) }

\* Identifiers that are in no application list: an arbitrary one, one that
\* names a function every object inherits, and the name of the prototype.
UnknownNames == << "ghost", "toString", "__proto__" >>

UnknownIds == { UnknownNames[i] : i \in 1..Min(NumUnknownIds, Len(UnknownNames)) }

VARIABLES
  openApps,         \* DockDemo: useState<string[]>([])
  windows,          \* WindowManager: useState<Record<string, WindowData>>({})
  highestZIndex,    \* WindowManager: useState(1000)
  prevOpenAppsRef,  \* WindowManager: useRef<string[]>([])
  effectUpdates,    \* WindowManager: the setWindows updaters the effect on
                    \* [openApps] has queued and that no render has applied yet
  positionUpdates,  \* MacWindow, by key: the position the last setPosition of
                    \* a mousemove has queued and that no render has applied yet
  animatingUpdates, \* MacWindow, by key: the value the last setIsAnimating has
                    \* queued and that no render has applied yet
  timers,           \* the keys of the MacWindows whose opening timer
                    \* (setTimeout, 300 ms) is set
  openEffects,      \* the keys of the MacWindows whose effect on [isOpen]
                    \* waits to run after the last commit
  listeners,        \* the keys of the MacWindows whose mousemove and mouseup
                    \* listeners are on the document, in the order they
                    \* were added
  staleLanes,       \* React: the components ("DockDemo" or the key of a
                    \* MacWindow) that took a state update of their own in
                    \* the last render that went through them; React renders
                    \* once more before it ignores a setState that changes
                    \* nothing in such a component
  frames,           \* the state of each mounted MacWindow, by key (appId)
  failure,          \* the error thrown by the last getWindowData call, or "none"
  lastOp,           \* history: the last user operation and the window's status before it
  closedPos,        \* history: where each closed window was shown when it was closed
  mouseX,           \* MacOSDock: useState<number | null>(null); << >> is null
  renderedMouseX,   \* MacOSDock: the mouseX of the last render
  currentScales,    \* MacOSDock: useState<number[]>, in 1/10000
  currentPositions, \* MacOSDock: useState<number[]>, in 1/10000 of a pixel
  animationFrameRef, \* MacOSDock: useRef<number | undefined>; 0 is undefined
  pendingFrames,    \* the browser's requested animation frames: id and callback
  lastFrameId,      \* the browser's last animation frame id
  moves,            \* the number of pointer moves and leaves taken so far
  framesSinceRender,\* the number of animation frames run since the dock last
                    \* rendered, up to MaxFramesPerRender
  dockPhase,        \* MacOSDock: "settled" (no update of the arrays waits for
                    \* a render), "dirty" (updates of currentScales and
                    \* currentPositions wait for a render) or "unmounted"
                    \* (React has removed the dock)
  dockEffect        \* MacOSDock: the passive effect that waits to run after
                    \* the last commit, << >> when none does: the start/stop
                    \* effect for the animateToTarget fn of that commit, or
                    \* after the unmount its cleanup

pageVars == << openApps, windows, highestZIndex, prevOpenAppsRef, effectUpdates,
               positionUpdates, animatingUpdates, timers, openEffects,
               listeners, staleLanes, frames, failure >>

wmVars == << pageVars, lastOp, closedPos >>

dockVars == << mouseX, renderedMouseX, currentScales, currentPositions,
               animationFrameRef, pendingFrames, lastFrameId, moves,
               framesSinceRender, dockPhase, dockEffect >>

vars == << wmVars, dockVars >>

---------------------------------------------------------------------------
(* Sequences as JavaScript arrays *)

Includes(s, x) == \E i \in DOMAIN s : s[i] = x

\* prev.filter(id => id !== appId)
FilterOut(s, x) == SelectSeq(s, LAMBDA y : y # x)

Elems(s) == { s[i] : i \in DOMAIN s }

---------------------------------------------------------------------------
(* Objects as JavaScript objects: a record holds the own properties *)

\* The value undefined.
undefined == "undefined"

\* An object without own properties: {}
EmptyObject == [k \in {} |-> undefined]

\* The names every object inherits from Object.prototype.
ObjectPrototypeKeys ==
  { "constructor", "hasOwnProperty", "isPrototypeOf", "propertyIsEnumerable",
    "toLocaleString", "toString", "valueOf", "__defineGetter__",
    "__defineSetter__", "__lookupGetter__", "__lookupSetter__", "__proto__" }

\* Where a record holds the prototype of the object, when an assignment to
\* "__proto__" has set one; the prototype of every other object is
\* Object.prototype.
Proto == "[[Prototype]]"

\* Object.keys(obj): the own properties.
OwnKeys(obj) == DOMAIN obj \ {Proto}

\* {...obj}: the own properties, on a new object whose prototype is
\* Object.prototype.
Spread(obj) == [k \in OwnKeys(obj) |-> obj[k]]

\* Object.prototype[key]: a function, and for "__proto__" the prototype
\* object itself.  Neither has an own enumerable property.
InheritedFunction(key) ==
  IF key = "__proto__" THEN [k \in {"Object.prototype"} |-> TRUE]
  ELSE [function |-> key]

\* obj[key] = value, for an object value: for "__proto__" without an own
\* property of that name the assignment sets the prototype of obj and adds no
\* own property.
SetProperty(obj, key, value) ==
  IF key = "__proto__" /\ key \notin DOMAIN obj
  THEN [k \in DOMAIN obj \cup {Proto} |-> IF k = Proto THEN value ELSE obj[k]]
  ELSE [k \in DOMAIN obj \cup {key} |-> IF k = key THEN value ELSE obj[k]]

\* key is found on the prototype that an assignment has given obj, whose
\* properties are flags.
InProto(obj, key) == Proto \in DOMAIN obj /\ key \in DOMAIN obj[Proto]

\* obj[key] is truthy, for an obj whose own values are objects: the own
\* properties first, then the prototype chain.
Truthy(obj, key) ==
  IF key \in OwnKeys(obj) \/ key = "__proto__" THEN TRUE
  ELSE IF InProto(obj, key) THEN obj[Proto][key]
  ELSE key \in ObjectPrototypeKeys

\* obj[key] where it is truthy; a flag found on the prototype is returned as
\* [boolean |-> TRUE].
Lookup(obj, key) ==
  IF key \in OwnKeys(obj) THEN obj[key]
  ELSE IF key = "__proto__" /\ Proto \in DOMAIN obj THEN obj[Proto]
  ELSE IF InProto(obj, key) THEN [boolean |-> obj[Proto][key]]
  ELSE InheritedFunction(key)

\* {...obj[key]}: the own enumerable properties of obj[key], none for
\* undefined, a boolean, a function and Object.prototype.
SpreadOf(obj, key) ==
  IF key \in OwnKeys(obj) THEN Spread(obj[key])
  ELSE IF key = "__proto__" /\ Proto \in DOMAIN obj THEN Spread(obj[Proto])
  ELSE EmptyObject

\* v has the own property key (an inherited value has none of those read
\* here).
Has(v, key) ==
  /\ "function" \notin DOMAIN v
  /\ "boolean" \notin DOMAIN v
  /\ "Object.prototype" \notin DOMAIN v
  /\ key \in OwnKeys(v)

\* v.key, undefined when v has no such property.
Prop(v, key) == IF Has(v, key) THEN v[key] ELSE undefined

\* obj[key]?.flag is truthy, for a flag that holds a boolean where it is set.
FlagOf(obj, key, flag) ==
  IF key \in OwnKeys(obj)
  THEN flag \in DOMAIN obj[key] /\ obj[key][flag]
  ELSE /\ key = "__proto__"
       /\ InProto(obj, flag)
       /\ obj[Proto][flag]

\* {...obj, [key]: value}
Assign(obj, key, value) ==
  [k \in OwnKeys(obj) \cup {key} |-> IF k = key THEN value ELSE obj[k]]

---------------------------------------------------------------------------
(* DockDemo (the page) *)

\* The earlier version of the page: a click toggles the application.
handleAppClickToggle(prev, appId) ==
  IF Includes(prev, appId) THEN FilterOut(prev, appId) ELSE Append(prev, appId)

\* A page whose click never opens anything: the updater always returns prev.
handleAppClickIgnore(prev, appId) == prev

\* handleAppClick's updater: prev.includes(appId) ? prev : [...prev, appId]
handleAppClickUpdater(prev, appId) ==
  IF Includes(prev, appId) THEN prev ELSE Append(prev, appId)

\* handleAppClose's updater: prev.filter(id => id !== appId)
handleAppClose(prev, appId) == FilterOut(prev, appId)

---------------------------------------------------------------------------
(* WindowManager *)

windowWidth == Px(800)

windowHeight == Px(600)

\* 520 / 0.45
macScreenWidth == (Px(520) * 100) \div 45

\* 360 / 0.45
macScreenHeight == (Px(360) * 100) \div 45

baseX == Max(Px(50), (macScreenWidth - windowWidth) \div 2)

baseY == Max(Px(50), (macScreenHeight - windowHeight) \div 2 - Px(300))

\* apps.find(a => a.id === appId): the entries with that id.
FindApp(apps, appId) == { i \in DOMAIN apps : apps[i].id = appId }

\* The record getWindowData builds for an application that has none, from
\* the windows and highestZIndex of the render it runs in.
newWindow(app, w, hz) ==
  LET offset == Cardinality(OwnKeys(w)) * Px(30)
  IN [ id          |-> app.id,
       title       |-> app.name,
       icon        |-> app.icon,
       isOpen      |-> TRUE,
       isMinimized |-> FALSE,
       zIndex      |-> hz + 1,
       position    |-> [x |-> baseX + offset, y |-> baseY + offset],
       size        |-> [width |-> windowWidth, height |-> windowHeight] ]

\* A getWindowData that forgets to step the stacking counter.
getWindowDataNoCount(appId, w, hz, apps) ==
  IF Truthy(w, appId)
  THEN [threw |-> FALSE, created |-> FALSE, bump |-> 0, data |-> Lookup(w, appId)]
  ELSE IF FindApp(apps, appId) = {}
  THEN [threw |-> TRUE, created |-> FALSE, bump |-> 0, data |-> <<>>]
  ELSE LET app == apps[CHOOSE i \in FindApp(apps, appId) :
                          \A j \in FindApp(apps, appId) : i <= j]
       IN [threw |-> FALSE, created |-> TRUE, bump |-> 0,
           data |-> newWindow(app, w, hz)]

\* A getWindowData that places every new window at the base position.
getWindowDataNoOffset(appId, w, hz, apps) ==
  IF Truthy(w, appId)
  THEN [threw |-> FALSE, created |-> FALSE, bump |-> 0, data |-> Lookup(w, appId)]
  ELSE IF FindApp(apps, appId) = {}
  THEN [threw |-> TRUE, created |-> FALSE, bump |-> 0, data |-> <<>>]
  ELSE LET app == apps[CHOOSE i \in FindApp(apps, appId) :
                          \A j \in FindApp(apps, appId) : i <= j]
       IN [threw |-> FALSE, created |-> TRUE, bump |-> 1,
           data |-> [newWindow(app, w, hz) EXCEPT
                       !.position = [x |-> baseX, y |-> baseY]]]

\* getWindowData(appId), called in a render whose windows are w and whose
\* highestZIndex is hz.  threw: the call throws.  created: the call queues
\* setWindows(prev => ({...prev, [appId]: data})).  bump: what the queued
\* setHighestZIndex(prev => prev + 1) adds.  data: the value returned.
\* The first test, if (windows[appId]), also succeeds for an appId without a
\* record that names an inherited property: the call then returns that
\* function.
getWindowData(appId, w, hz, apps) ==
  IF Truthy(w, appId)
  THEN [threw |-> FALSE, created |-> FALSE, bump |-> 0, data |-> Lookup(w, appId)]
  ELSE IF FindApp(apps, appId) = {}
  THEN [threw |-> TRUE, created |-> FALSE, bump |-> 0, data |-> <<>>]
  ELSE LET app == apps[CHOOSE i \in FindApp(apps, appId) :
                          \A j \in FindApp(apps, appId) : i <= j]
       IN [threw |-> FALSE, created |-> TRUE, bump |-> 1,
           data |-> newWindow(app, w, hz)]

\* One render of WindowManager with the props openApps = oa, in which the
\* state is (w, hz): openApps.map(appId => getWindowData(appId)).  Every call
\* of the pass reads the same w and hz; the updates the calls queue are
\* applied afterwards, in order, and the component renders again with them.
\* The second pass finds every record and queues nothing.
Render(oa, w, hz) ==
  LET calls == [i \in DOMAIN oa |-> getWindowData(oa[i], w, hz, sampleApps)]
      made == { i \in DOMAIN oa : calls[i].created }
      last(a) == CHOOSE i \in made : oa[i] = a /\ \A j \in made : oa[j] = a => j <= i
      bumps[i \in 0..Len(oa)] == IF i = 0 THEN 0 ELSE bumps[i - 1] + calls[i].bump
  IN [ threw         |-> \E i \in DOMAIN oa : calls[i].threw,
       windows       |-> IF made = {} THEN w
                         ELSE [a \in OwnKeys(w) \cup { oa[i] : i \in made } |->
                                 IF \E i \in made : oa[i] = a
                                 THEN calls[last(a)].data
                                 ELSE w[a]],
       highestZIndex |-> hz + bumps[Len(oa)] ]

\* An updater that recomputes the position of the window it reopens.
reopenUpdaterRecenter(prev, appId) ==
  LET offset == Cardinality(OwnKeys(prev)) * Px(30)
  IN Assign(prev, appId,
       Assign(Assign(Assign(Assign(SpreadOf(prev, appId),
         "isOpen", TRUE),
         "isMinimized", FALSE),
         "zIndex", Prop(Lookup(prev, appId), "zIndex")),
         "position", [x |-> baseX + offset, y |-> baseY + offset]))

\* The updater the effect queues for a newly opened application:
\* prev => ({...prev, [appId]: {...prev[appId], isOpen: true,
\*                              isMinimized: false, zIndex: prev[appId].zIndex}})
reopenUpdater(prev, appId) ==
  Assign(prev, appId,
    Assign(Assign(Assign(SpreadOf(prev, appId),
      "isOpen", TRUE),
      "isMinimized", FALSE),
      "zIndex", Prop(Lookup(prev, appId), "zIndex")))

\* The updater the effect queues for a re-clicked minimized application:
\* prev => ({...prev, [appId]: {...prev[appId], isMinimized: false}})
unminimizeUpdater(prev, appId) ==
  Assign(prev, appId, Assign(SpreadOf(prev, appId), "isMinimized", FALSE))

\* The effect on [openApps] ("Handle dock click actions"), run after a render
\* with props openApps = oa, windows = w and prevOpenAppsRef.current = prev:
\* the setWindows updaters it queues, in order.  newApps whose windows[appId]
\* is truthy and not open are reopened; reClickedApps, the applications that
\* stay open and are minimized, are un-minimized.
DockClickEffectUpdates(oa, prev, w) ==
  LET newApps == SelectSeq(oa, LAMBDA a : ~Includes(prev, a))
      reClickedApps ==
        SelectSeq(oa, LAMBDA a : Includes(prev, a) /\ FlagOf(w, a, "isMinimized"))
      reopened ==
        SelectSeq(newApps, LAMBDA a : Truthy(w, a) /\ ~FlagOf(w, a, "isOpen"))
  IN [i \in 1..Len(reopened) |-> [op |-> "reopen", appId |-> reopened[i]]]
       \o [i \in 1..Len(reClickedApps) |->
             [op |-> "unminimize", appId |-> reClickedApps[i]]]

\* The windows after the queued updaters are applied to prev, in order.
RECURSIVE ApplyUpdates(_, _)
ApplyUpdates(updates, prev) ==
  IF updates = << >> THEN prev
  ELSE ApplyUpdates(Tail(updates),
         IF Head(updates).op = "reopen"
         THEN reopenUpdater(prev, Head(updates).appId)
         ELSE unminimizeUpdater(prev, Head(updates).appId))

\* The windows once the updates the effect queues have been rendered.
DockClickEffect(oa, prev, w) ==
  ApplyUpdates(DockClickEffectUpdates(oa, prev, w), w)

\* A close handler that deletes the record.
handleWindowCloseDelete(prev, appId) ==
  [a \in OwnKeys(prev) \ {appId} |-> prev[a]]

\* A close that leaves the record's open flag as it is.
handleWindowCloseNoFlag(prev, appId) == Spread(prev)

\* handleWindowClose's updater of windows: const updated = {...prev};
\* if (updated[appId]) updated[appId] = {...updated[appId], isOpen: false}
handleWindowCloseUpdater(prev, appId) ==
  LET updated == Spread(prev)
  IN IF Truthy(updated, appId)
     THEN SetProperty(updated, appId,
            Assign(SpreadOf(updated, appId), "isOpen", FALSE))
     ELSE updated

\* handleWindowMinimize's updater of windows: const updated = {...prev};
\* if (updated[appId])
\* updated[appId] = {...updated[appId], isMinimized: !updated[appId].isMinimized}
handleWindowMinimizeUpdater(prev, appId) ==
  LET updated == Spread(prev)
  IN IF Truthy(updated, appId)
     THEN SetProperty(updated, appId,
            Assign(SpreadOf(updated, appId), "isMinimized",
                   ~FlagOf(updated, appId, "isMinimized")))
     ELSE updated

---------------------------------------------------------------------------
(* MacWindow *)

\* The state of a MacWindow when it mounts with the props of windowData; a
\* prop that is undefined takes its default, initialPosition = {x: 50, y: 50}
\* and initialSize = {width: 800, height: 600}.
MountFrame(windowData) ==
  [ position    |-> IF Has(windowData, "position")
                    THEN windowData.position
                    ELSE [x |-> Px(50), y |-> Px(50)],
    size        |-> IF Has(windowData, "size")
                    THEN windowData.size
                    ELSE [width |-> Px(800), height |-> Px(600)],
    isDragging  |-> FALSE,
    isResizing  |-> FALSE,
    isMaximized |-> FALSE,
    dragOffset  |-> [x |-> 0, y |-> 0],
    isAnimating |-> FALSE ]

\* The MacWindow components after a render with openApps = oa and windows = w:
\* one per key; a component that stays keeps its state, a new key mounts with
\* what getWindowData returns, a key no longer rendered unmounts.
MountFrames(fr, oa, w) ==
  [a \in Elems(oa) |->
     IF a \in DOMAIN fr THEN fr[a] ELSE MountFrame(Lookup(w, a))]

\* MacWindow's isOpen prop in a render with the windows w:
\* isOpen={windowData.isOpen && !windowData.isMinimized}
OpenProp(w, a) == FlagOf(w, a, "isOpen") /\ ~FlagOf(w, a, "isMinimized")

\* MacWindow's isOpen prop is true, so the frame is on screen.
Displayed(a) == a \in DOMAIN frames /\ OpenProp(windows, a)

\* The document listeners of the frame are attached: isDragging || isResizing
Listening(f) == f.isDragging \/ f.isResizing

\* What the effect that attaches the listeners depends on: isDragging,
\* isResizing and handleMouseMove, a new function when one of its own
\* dependencies has changed (handleMouseUp never changes).
ListenDeps(f) ==
  << f.isDragging, f.isResizing, f.isMaximized, f.dragOffset, f.size >>

\* A move that follows the pointer without the container bounds.
handleMouseMoveNoClamp(f, e) ==
  IF f.isDragging /\ ~f.isMaximized
  THEN [f EXCEPT !.position = [x |-> e.x - f.dragOffset.x,
                               y |-> e.y - f.dragOffset.y]]
  ELSE f

\* handleMouseMove: the frame after a pointer move to e = (clientX, clientY).
handleMouseMove(f, e) ==
  IF f.isDragging /\ ~f.isMaximized
  THEN LET containerWidth == (Px(520) * 100) \div 45
           containerHeight == (Px(360) * 100) \div 45
           maxX == containerWidth - f.size.width
           maxY == containerHeight - f.size.height
       IN [f EXCEPT !.position =
             [x |-> Max(0, Min(maxX, e.x - f.dragOffset.x)),
              y |-> Max(0, Min(maxY, e.y - f.dragOffset.y))]]
  ELSE f

\* handleMouseUp
handleMouseUp(f) == [f EXCEPT !.isDragging = FALSE, !.isResizing = FALSE]

\* Where the pointer goes during a drag (clientX, clientY).
PointerPlaces ==
  << [x |-> Px(220), y |-> Px(110)],
     [x |-> Px(2000), y |-> Px(1000)],
     [x |-> Px(10), y |-> Px(5)] >>

Pointers == { PointerPlaces[i] : i \in 1..Min(NumPointers, Len(PointerPlaces)) }

\* Where in the window the title bar is grabbed (clientX - rect.left, ...).
DragOffsets == { [x |-> Px(20), y |-> Px(10)] }

---------------------------------------------------------------------------
(* MacOSDock *)

\* Scales are kept in 1/FP and dock positions in 1/FP of a pixel; an angle
\* is kept in 1/FP of a radian.
FP == 10000

baseIconSize == 64

maxScale == (18 * FP) \div 10

effectWidth == 300

minScale == FP

baseSpacing == 8

\* 2 * Math.PI
TwoPi == 62832

\* The dock entries the dock is given: apps.
DockIcons == 1..Min(NumIcons, Len(sampleApps))

\* x * y / FP, rounded toward zero.
MulFP(x, y) == (x * y) \div FP

\* Math.cos(x) for 0 <= x <= pi / 2, by its series up to x^8.
CosSmall(x) ==
  LET x2 == MulFP(x, x)
      x4 == MulFP(x2, x2)
      x6 == MulFP(x4, x2)
      x8 == ((x6 \div 8) * x2) \div (FP \div 8)
  IN FP - x2 \div 2 + x4 \div 24 - x6 \div 720 + x8 \div 40320

\* Math.cos(theta) for 0 <= theta <= 2 * pi.
Cos(theta) ==
  LET t == IF theta > TwoPi \div 2 THEN TwoPi - theta ELSE theta
  IN IF t > TwoPi \div 4 THEN 0 - CosSmall(TwoPi \div 2 - t) ELSE CosSmall(t)

\* A magnification with the sign of the cosine wrong: (1 + cos) / 2.
calculateTargetMagnificationInverted(mousePosition) ==
  IF mousePosition = << >>
  THEN [index \in DockIcons |-> minScale]
  ELSE [index \in DockIcons |->
          LET normalIconCenter == (index - 1) * (baseIconSize + baseSpacing)
                                    + baseIconSize \div 2
              minX == mousePosition[1] - effectWidth \div 2
              maxX == mousePosition[1] + effectWidth \div 2
          IN IF normalIconCenter < minX \/ normalIconCenter > maxX
             THEN minScale
             ELSE LET theta == ((normalIconCenter - minX) * TwoPi) \div effectWidth
                      cappedTheta == Min(Max(theta, 0), TwoPi)
                      scaleFactor == (FP + Cos(cappedTheta)) \div 2
                  IN minScale + MulFP(scaleFactor, maxScale - minScale)]

\* calculateTargetMagnification(mousePosition): the target scale of each
\* icon.  The icons are numbered from 1, so the index of the code is
\* index - 1.
calculateTargetMagnification(mousePosition) ==
  IF mousePosition = << >>
  THEN [index \in DockIcons |-> minScale]
  ELSE [index \in DockIcons |->
          LET normalIconCenter == (index - 1) * (baseIconSize + baseSpacing)
                                    + baseIconSize \div 2
              minX == mousePosition[1] - effectWidth \div 2
              maxX == mousePosition[1] + effectWidth \div 2
          IN IF normalIconCenter < minX \/ normalIconCenter > maxX
             THEN minScale
             ELSE LET theta == ((normalIconCenter - minX) * TwoPi) \div effectWidth
                      cappedTheta == Min(Max(theta, 0), TwoPi)
                      scaleFactor == (FP - Cos(cappedTheta)) \div 2
                  IN minScale + MulFP(scaleFactor, maxScale - minScale)]

\* calculatePositions(scales): the center of each icon.
calculatePositions(scales) ==
  LET currentX[i \in 0..Len(scales)] ==
        IF i = 0 THEN 0
        ELSE currentX[i - 1] + baseIconSize * scales[i] + baseSpacing * FP
  IN [i \in DOMAIN scales |->
        currentX[i - 1] + (baseIconSize * scales[i]) \div 2]

\* x / 100, rounded toward zero.
Hundredth(x) == IF x >= 0 THEN x \div 100 ELSE 0 - ((0 - x) \div 100)

\* A step that jumps to the target.
LerpSnap(current, target, lerpFactor) == target

\* A step six times as long, which passes the target.
LerpOvershoot(current, target, lerpFactor) ==
  current + 6 * Hundredth((target - current) * lerpFactor)

\* A step that only ever grows a value.
LerpUpOnly(current, target, lerpFactor) ==
  IF target > current
  THEN current + Hundredth((target - current) * lerpFactor)
  ELSE current

\* current + diff * lerpFactor, with lerpFactor in hundredths.
Lerp(current, target, lerpFactor) ==
  current + Hundredth((target - current) * lerpFactor)

\* mouseX !== null ? 0.2 : 0.12, in hundredths.
LerpFactor(mousePosition) == IF mousePosition # << >> THEN 20 ELSE 12

Abs(x) == IF x >= 0 THEN x ELSE 0 - x

\* scalesNeedUpdate || positionsNeedUpdate, of the scales and positions
\* against the targets for mousePosition (0.002 and 0.1 are the tolerances).
NeedUpdate(mousePosition, scales, positions) ==
  LET targetScales == calculateTargetMagnification(mousePosition)
      targetPositions == calculatePositions(targetScales)
  IN \/ \E i \in DOMAIN scales : Abs(scales[i] - targetScales[i]) > (2 * FP) \div 1000
     \/ \E i \in DOMAIN positions : Abs(positions[i] - targetPositions[i]) > FP \div 10

\* A callback that steps the scales and leaves the positions where they are.
animateToTargetScalesOnly(fn, prevScales, prevPositions) ==
  LET targetScales == calculateTargetMagnification(fn.mouseX)
      lerpFactor == LerpFactor(fn.mouseX)
  IN [ currentScales    |-> [i \in DOMAIN prevScales |->
                               Lerp(prevScales[i], targetScales[i], lerpFactor)],
       currentPositions |-> prevPositions,
       request          |-> \/ NeedUpdate(fn.mouseX, fn.currentScales,
                                          fn.currentPositions)
                            \/ fn.mouseX # << >> ]

\* animateToTarget, the callback fn of the render whose mouseX, currentScales
\* and currentPositions it closes over, run when the state is prevScales and
\* prevPositions: the state after its two updates, and whether it requests
\* the next frame for itself.
animateToTarget(fn, prevScales, prevPositions) ==
  LET targetScales == calculateTargetMagnification(fn.mouseX)
      targetPositions == calculatePositions(targetScales)
      lerpFactor == LerpFactor(fn.mouseX)
  IN [ currentScales    |-> [i \in DOMAIN prevScales |->
                               Lerp(prevScales[i], targetScales[i], lerpFactor)],
       currentPositions |-> [i \in DOMAIN prevPositions |->
                               Lerp(prevPositions[i], targetPositions[i], lerpFactor)],
       request          |-> \/ NeedUpdate(fn.mouseX, fn.currentScales,
                                          fn.currentPositions)
                            \/ fn.mouseX # << >> ]

\* The animateToTarget that useCallback returns in a render with this state.
Callback(m, scales, positions) ==
  [mouseX |-> m, currentScales |-> scales, currentPositions |-> positions]

\* The id requestAnimationFrame returns after the id last.  Ids are not 0;
\* the model reuses them after FrameIdMod requests.
NextFrameId(last) == (last % FrameIdMod) + 1

\* cancelAnimationFrame(id): the frames still requested.
CancelFrame(pending, id) == { f \in pending : f.id # id }

\* A start/stop effect that requests a frame without cancelling the one in
\* animationFrameRef.
StartStopEffectNoCancel(fn, ref, pending, last) ==
  LET id == NextFrameId(last)
  IN [ animationFrameRef |-> id,
       pendingFrames     |-> pending \cup { [id |-> id, fn |-> fn] },
       lastFrameId       |-> id ]

\* The start/stop effect after a render that made a new animateToTarget, fn:
\* the old effect's cleanup cancels the frame in animationFrameRef, and the
\* effect cancels it again and requests a frame for fn.  ref, pending and
\* last are animationFrameRef.current, the requested frames and the last
\* frame id before the effect runs.
StartStopEffect(fn, ref, pending, last) ==
  LET cleaned == IF ref # 0 THEN CancelFrame(pending, ref) ELSE pending
      id == NextFrameId(last)
  IN [ animationFrameRef |-> id,
       pendingFrames     |-> cleaned \cup { [id |-> id, fn |-> fn] },
       lastFrameId       |-> id ]

\* The dock at rest: the "Initialize positions" effect has set the scales and
\* positions, and the start/stop effect of the render after it has requested
\* the first frame that is not cancelled.
RestScales == [i \in DockIcons |-> minScale]

InitDock ==
  /\ mouseX = << >>
  /\ renderedMouseX = << >>
  /\ currentScales = RestScales
  /\ currentPositions = calculatePositions(RestScales)
  /\ animationFrameRef = 2
  /\ pendingFrames = { [id |-> 2,
                        fn |-> Callback(<< >>, RestScales,
                                        calculatePositions(RestScales))] }
  /\ lastFrameId = 2
  /\ moves = 0
  /\ framesSinceRender = 0
  /\ dockPhase = "settled"
  /\ dockEffect = << >>

\* The browser runs the requested frame f: animateToTarget queues its two
\* updaters (dropped once the dock is unmounted) and requests the next frame
\* for itself if its condition holds.  The dock renders in a later task; the
\* state variables hold the state with the queued updaters applied, and what
\* the last render saw is in the callbacks of the requested frames.
RunFrame(f) ==
  /\ f \in pendingFrames
  /\ LET r == animateToTarget(f.fn, currentScales, currentPositions)
         id == NextFrameId(lastFrameId)
     IN /\ IF dockPhase = "unmounted"
           THEN UNCHANGED << currentScales, currentPositions, dockPhase >>
           ELSE /\ currentScales' = r.currentScales
                /\ currentPositions' = r.currentPositions
                /\ dockPhase' = "dirty"
        /\ IF r.request
           THEN /\ pendingFrames' = (pendingFrames \ {f}) \cup { [id |-> id, fn |-> f.fn] }
                /\ animationFrameRef' = id
                /\ lastFrameId' = id
           ELSE /\ pendingFrames' = pendingFrames \ {f}
                /\ UNCHANGED << animationFrameRef, lastFrameId >>
  /\ framesSinceRender' = Min(framesSinceRender + 1, MaxFramesPerRender)
  /\ UNCHANGED << mouseX, renderedMouseX, moves, dockEffect, wmVars >>

\* setMouseX(value) in a handler of a pointer move or leave: the update is
\* queued, and the dock renders in a later task.
SetMouseX(value) == mouseX' = value

\* The dock's handleMouseMove, with x = e.clientX - rect.left - padding;
\* throttled: less than 16 ms have passed since the last move that was taken.
dockHandleMouseMove(x, throttled) ==
  /\ dockPhase # "unmounted"
  /\ moves < MaxMoves
  /\ IF throttled
     THEN UNCHANGED << mouseX, moves >>
     ELSE /\ SetMouseX(<< x >>)
          /\ moves' = moves + 1
  /\ UNCHANGED << renderedMouseX, currentScales, currentPositions,
                  animationFrameRef, pendingFrames, lastFrameId,
                  framesSinceRender, dockPhase, dockEffect, wmVars >>

\* handleMouseLeave
handleMouseLeave ==
  /\ dockPhase # "unmounted"
  /\ mouseX # << >> => moves < MaxMoves
  /\ SetMouseX(<< >>)
  /\ moves' = IF mouseX # << >> THEN moves + 1 ELSE moves
  /\ UNCHANGED << renderedMouseX, currentScales, currentPositions,
                  animationFrameRef, pendingFrames, lastFrameId,
                  framesSinceRender, dockPhase, dockEffect, wmVars >>

\* State updates of the dock wait for a render that will make a new
\* animateToTarget: new arrays, or a mouseX other than the rendered one.
DockRenderPending ==
  \/ dockPhase = "dirty"
  \/ dockPhase = "settled" /\ mouseX # renderedMouseX

\* The cleanup of the start/stop effect: the frames still requested when the
\* frame in animationFrameRef, ref, is cancelled.
StartStopCleanup(ref, pending) ==
  IF ref # 0 THEN CancelFrame(pending, ref) ELSE pending

\* The frame in the ref, the requested frames and the last frame id once the
\* passive effect that waits has run, with the ref as it is then: the
\* start/stop effect of the last commit, or after the unmount its cleanup.
\* React runs it in a task of its own, and before it renders again.
DockFlushed ==
  IF dockEffect = << >>
  THEN [ animationFrameRef |-> animationFrameRef,
         pendingFrames     |-> pendingFrames,
         lastFrameId       |-> lastFrameId ]
  ELSE IF dockEffect[1].op = "cleanup"
  THEN [ animationFrameRef |-> animationFrameRef,
         pendingFrames     |-> StartStopCleanup(animationFrameRef, pendingFrames),
         lastFrameId       |-> lastFrameId ]
  ELSE StartStopEffect(dockEffect[1].fn, animationFrameRef, pendingFrames,
                       lastFrameId)

\* The frames are d after the step.
DockFrames(d) ==
  /\ animationFrameRef' = d.animationFrameRef
  /\ pendingFrames' = d.pendingFrames
  /\ lastFrameId' = d.lastFrameId

\* The dock's passive effect that waits, if any, runs.
DockFlushEffects ==
  /\ DockFrames(DockFlushed)
  /\ dockEffect' = << >>
  /\ UNCHANGED << mouseX, renderedMouseX, currentScales, currentPositions,
                  moves, framesSinceRender, dockPhase >>

\* The dock's part of a render of the page, before which React runs the
\* passive effect that waits.  With updates waiting, useCallback returns a
\* new animateToTarget and the commit schedules the start/stop effect for
\* it; with none, the dock stays as it is.  sync: the render is that of a
\* discrete event (a click, a mousedown, a mouseup), whose passive effects
\* run before the task ends; the effects of any other render wait for a
\* later task, and frames and events can come before them.
DockRender(sync) ==
  IF DockRenderPending
  THEN LET fn == Callback(mouseX, currentScales, currentPositions)
           d == DockFlushed
       IN /\ IF sync
             THEN /\ DockFrames(StartStopEffect(fn, d.animationFrameRef,
                                                d.pendingFrames, d.lastFrameId))
                  /\ dockEffect' = << >>
             ELSE /\ DockFrames(d)
                  /\ dockEffect' = << [op |-> "effect", fn |-> fn] >>
          /\ renderedMouseX' = mouseX
          /\ dockPhase' = "settled"
          /\ framesSinceRender' = 0
          /\ UNCHANGED << mouseX, currentScales, currentPositions, moves >>
  ELSE DockFlushEffects

\* React removes the dock, after it has run the passive effect that waits.
\* sync: the cleanup of the start/stop effect runs before the task ends, as
\* when a render throws in a click; else it waits for a later task.
DockUnmount(sync) ==
  IF dockPhase = "unmounted"
  THEN DockFlushEffects
  ELSE LET d == DockFlushed
       IN /\ animationFrameRef' = d.animationFrameRef
          /\ lastFrameId' = d.lastFrameId
          /\ pendingFrames' = IF sync
                              THEN StartStopCleanup(d.animationFrameRef,
                                                    d.pendingFrames)
                              ELSE d.pendingFrames
          /\ dockEffect' = IF sync THEN << >> ELSE << [op |-> "cleanup"] >>
          /\ dockPhase' = "unmounted"
          /\ UNCHANGED << mouseX, renderedMouseX, currentScales,
                          currentPositions, moves, framesSinceRender >>

\* Where the pointer goes over the dock: mouseX in pixels.
DockPointerPlaces == << 32, 140, 400 >>

DockPointers == { DockPointerPlaces[i] : i \in 1..Min(NumDockPointers, Len(DockPointerPlaces)) }

---------------------------------------------------------------------------
(* The desktop: DockDemo, WindowManager and the MacWindows *)

NoWindows == [a \in {} |-> 0]

\* The windows state with the updaters the effect has queued applied: what
\* the next render of WindowManager works with.
WindowsWithUpdates == ApplyUpdates(effectUpdates, windows)

\* The MacWindows fr with the queued positions pos and the queued values anim
\* of isAnimating applied.
ApplyFrameUpdates(fr, pos, anim) ==
  [a \in DOMAIN fr |->
     [fr[a] EXCEPT
        !.position = IF a \in DOMAIN pos THEN pos[a] ELSE @,
        !.isAnimating = IF a \in DOMAIN anim THEN anim[a] ELSE @]]

\* The state of the MacWindows with their queued updates applied: what their
\* next render works with.
FramesWithUpdates ==
  ApplyFrameUpdates(frames, positionUpdates, animatingUpdates)

\* The status of an application's window, for the history in lastOp.
Status(a) ==
  IF a \notin DOMAIN WindowsWithUpdates THEN "none"
  ELSE IF ~Includes(openApps, a) THEN "closed"
  ELSE IF FlagOf(WindowsWithUpdates, a, "isMinimized") THEN "minimized"
  ELSE "shown"

\* Nothing has thrown while rendering: the components are still mounted.
Alive == failure = "none"

InitDesktop ==
  /\ openApps = << >>
  /\ windows = NoWindows
  /\ highestZIndex = 1000
  /\ prevOpenAppsRef = << >>
  /\ effectUpdates = << >>
  /\ positionUpdates = NoWindows
  /\ animatingUpdates = NoWindows
  /\ timers = {}
  /\ openEffects = {}
  /\ listeners = << >>
  /\ staleLanes = {}
  /\ frames = NoWindows
  /\ failure = "none"
  /\ lastOp = [op |-> "init", id |-> "", was |-> "none"]
  /\ closedPos = NoWindows

\* The state of DockDemo, WindowManager and the MacWindows as one value.
Page ==
  [ openApps         |-> openApps,
    windows          |-> windows,
    highestZIndex    |-> highestZIndex,
    prevOpenAppsRef  |-> prevOpenAppsRef,
    effectUpdates    |-> effectUpdates,
    positionUpdates  |-> positionUpdates,
    animatingUpdates |-> animatingUpdates,
    timers           |-> timers,
    openEffects      |-> openEffects,
    listeners        |-> listeners,
    staleLanes       |-> staleLanes,
    frames           |-> frames,
    failure          |-> failure ]

\* The state of DockDemo, WindowManager and the MacWindows is p after the
\* step.
Becomes(p) ==
  /\ openApps' = p.openApps
  /\ windows' = p.windows
  /\ highestZIndex' = p.highestZIndex
  /\ prevOpenAppsRef' = p.prevOpenAppsRef
  /\ effectUpdates' = p.effectUpdates
  /\ positionUpdates' = p.positionUpdates
  /\ animatingUpdates' = p.animatingUpdates
  /\ timers' = p.timers
  /\ openEffects' = p.openEffects
  /\ listeners' = p.listeners
  /\ staleLanes' = p.staleLanes
  /\ frames' = p.frames
  /\ failure' = p.failure

\* The MacWindow a has no update queued and took none in the last render that
\* went through it: React then compares the value of a setState with the
\* rendered one, and ignores the call without a render when they are equal.
NoLanes(p, a) ==
  /\ a \notin p.staleLanes
  /\ a \notin DOMAIN p.positionUpdates
  /\ a \notin DOMAIN p.animatingUpdates

\* setIsAnimating(value) in the MacWindow a, outside a render.
SetIsAnimating(p, a, value) ==
  IF p.frames[a].isAnimating = value /\ NoLanes(p, a) THEN p
  ELSE [p EXCEPT !.animatingUpdates =
          [b \in DOMAIN @ \cup {a} |-> IF b = a THEN value ELSE @[b]]]

\* The "Animation when window opens" effects of the MacWindows in E run, each
\* after the cleanup of its last run (clearTimeout): with the isOpen prop
\* true, setIsAnimating(true) and a timer of 300 ms.
RECURSIVE RunOpenEffects(_, _)
RunOpenEffects(p, E) ==
  IF E = {} THEN p
  ELSE LET a == CHOOSE x \in E : TRUE
           cleaned == [p EXCEPT !.timers = @ \ {a}]
       IN RunOpenEffects(
            IF OpenProp(p.windows, a)
            THEN [SetIsAnimating(cleaned, a, TRUE) EXCEPT !.timers = @ \cup {a}]
            ELSE cleaned,
            E \ {a})

\* The passive effects that wait since the last commit run.
FlushEffects(p) ==
  RunOpenEffects([p EXCEPT !.openEffects = {}], p.openEffects)

\* The MacWindow f with the state values set that its handler has set.
SetState(f, set) ==
  [k \in DOMAIN f |-> IF k \in DOMAIN set THEN set[k] ELSE f[k]]

\* One render of the page and its commit, from the state p0.  React first
\* runs the passive effects that wait.  nextOpen: openApps in this render;
\* demo: DockDemo has set it (a new array).  w0: the windows WindowManager
\* renders with, every queued updater applied.  own: the key of the MacWindow
\* whose handler has set the state values set, "" when none has; took: that
\* changes its state.  The render takes every queued update;
\* MacWindows mount and unmount; the effect on [openApps] runs after a render
\* in which openApps is a new array, and the updaters it queues wait for a
\* later render; the listener effect of a MacWindow runs when one of
\* ListenDeps has changed, its cleanup first.  The effect on [isOpen] of a
\* MacWindow that has mounted or whose isOpen prop has changed runs before
\* the task ends when the render is sync, that of a discrete event, and else
\* waits.  A MacWindow is left with lanes when it had an update and either
\* its state changed or WindowManager rendered; a render that reaches the
\* MacWindows clears the lanes of the others, and every render clears those
\* of DockDemo.  When getWindowData throws, React unmounts the page.
RenderPage(p0, nextOpen, demo, w0, wm, own, set, took, sync) ==
  LET p == FlushEffects(p0)
      r == Render(nextOpen, w0, p.highestZIndex)
      parent == demo \/ wm \/ p.effectUpdates # << >>
      updated == DOMAIN p.positionUpdates \cup DOMAIN p.animatingUpdates
                   \cup (IF own = "" THEN {} ELSE {own})
      through == parent \/ updated # {}
      queued == ApplyFrameUpdates(p.frames, p.positionUpdates, p.animatingUpdates)
      rendered == [a \in DOMAIN queued |->
                     IF a = own THEN SetState(queued[a], set) ELSE queued[a]]
      fr == MountFrames(rendered, nextOpen, r.windows)
      changed == { a \in DOMAIN fr \cap DOMAIN p.frames :
                     \/ a \in DOMAIN p.positionUpdates
                     \/ a = own /\ took
                     \/ fr[a] # p.frames[a] }
      listen == { a \in DOMAIN fr :
                    \/ a \notin DOMAIN p.frames
                    \/ ListenDeps(fr[a]) # ListenDeps(p.frames[a]) }
      E == { a \in DOMAIN fr :
               \/ a \notin DOMAIN p.frames
               \/ OpenProp(r.windows, a) # OpenProp(p.windows, a) }
      q == [ openApps         |-> nextOpen,
             windows          |-> r.windows,
             highestZIndex    |-> r.highestZIndex,
             prevOpenAppsRef  |-> IF demo THEN nextOpen ELSE p.prevOpenAppsRef,
             effectUpdates    |->
               IF demo
               THEN DockClickEffectUpdates(nextOpen, p.prevOpenAppsRef, r.windows)
               ELSE << >>,
             positionUpdates  |-> NoWindows,
             animatingUpdates |-> NoWindows,
             timers           |-> p.timers \cap DOMAIN fr,
             openEffects      |-> IF sync THEN {} ELSE E,
             listeners        |->
               SelectSeq(p.listeners,
                         LAMBDA a : a \in DOMAIN fr /\ a \notin listen)
                 \o SelectSeq(nextOpen,
                              LAMBDA a : a \in listen /\ Listening(fr[a])),
             staleLanes       |->
               (IF demo THEN {"DockDemo"} ELSE {})
                 \cup (IF through
                       THEN { a \in updated \cap DOMAIN fr :
                                parent \/ a \in changed }
                       ELSE p.staleLanes \ {"DockDemo"}),
             frames           |-> fr,
             failure          |-> p.failure ]
  IN IF r.threw
     THEN [p0 EXCEPT !.failure = "not found", !.timers = {},
                     !.openEffects = {}, !.listeners = << >>]
     ELSE IF sync THEN RunOpenEffects(q, E) ELSE q

\* The page is p after the step, and the dock has rendered with it; when the
\* render has thrown, React has unmounted the dock as well.
Rendered(p, sync) ==
  /\ Becomes(p)
  /\ IF p.failure # failure THEN DockUnmount(TRUE) ELSE DockRender(sync)

\* DockDemo has set openApps to nextOpen (a new array) in a click, and the
\* handler has left the windows as w0; wm: it has set them itself.
Commit(nextOpen, w0, wm) ==
  Rendered(RenderPage(Page, nextOpen, TRUE, w0, wm, "", EmptyObject, FALSE, TRUE), TRUE)

\* A later task in which React renders what is queued: the updaters of the
\* effect, the positions of the mousemoves, the values of isAnimating, and
\* the updates of the dock.  The passive effects of this commit wait for a
\* task of their own.
RenderQueuedUpdates ==
  LET queued == /\ Alive
                /\ \/ effectUpdates # << >>
                   \/ DOMAIN positionUpdates # {}
                   \/ DOMAIN animatingUpdates # {}
  IN /\ queued \/ DockRenderPending
     /\ IF Alive
        THEN Becomes(RenderPage(Page, openApps, FALSE, WindowsWithUpdates,
                                FALSE, "", EmptyObject, FALSE, FALSE))
        ELSE UNCHANGED pageVars
     /\ DockRender(FALSE)
     /\ UNCHANGED << lastOp, closedPos >>

\* The task in which React runs the passive effects that wait since the last
\* commit: the start/stop effect of the dock or its cleanup, and the effects
\* on [isOpen] of the MacWindows.
FlushPassiveEffects ==
  /\ dockEffect # << >> \/ openEffects # {}
  /\ Becomes(FlushEffects(Page))
  /\ DockFlushEffects
  /\ UNCHANGED << lastOp, closedPos >>

\* The opening timer of the MacWindow appId fires: setIsAnimating(false).
TimerFires(appId) ==
  /\ appId \in timers
  /\ Becomes(SetIsAnimating([Page EXCEPT !.timers = @ \ {appId}], appId, FALSE))
  /\ UNCHANGED << lastOp, closedPos, dockVars >>

\* A click on the dock icon of appId: MacOSDock's handleAppClick calls
\* onAppClick, DockDemo's handleAppClick.  The render the click causes takes
\* the updates still queued with it.  When the updater returns prev itself
\* openApps stays the same array and the effect does not run; React then
\* renders only if DockDemo took an update in the last render that went
\* through it, and else ignores the setOpenApps without a render.
handleAppClick(appId) ==
  LET nextOpen == handleAppClickUpdater(openApps, appId)
  IN /\ Alive
     /\ lastOp' = [op |-> "click", id |-> appId, was |-> Status(appId)]
     /\ UNCHANGED closedPos
     /\ IF nextOpen # openApps
        THEN Commit(nextOpen, WindowsWithUpdates, FALSE)
        ELSE IF "DockDemo" \in staleLanes
        THEN Rendered(RenderPage(Page, openApps, FALSE, WindowsWithUpdates,
                                 FALSE, "", EmptyObject, FALSE, TRUE), TRUE)
        ELSE UNCHANGED << pageVars, dockVars >>

\* A click on the red button of the frame of appId: handleWindowClose, which
\* calls onAppClose, DockDemo's handleAppClose.
handleWindowClose(appId) ==
  /\ Alive
  /\ Displayed(appId)
  /\ lastOp' = [op |-> "close", id |-> appId, was |-> Status(appId)]
  /\ closedPos' = [a \in DOMAIN closedPos \cup {appId} |->
                     IF a = appId THEN frames[appId].position ELSE closedPos[a]]
  /\ Commit(handleAppClose(openApps, appId),
            handleWindowCloseUpdater(WindowsWithUpdates, appId), TRUE)

\* A click on the yellow button of the frame of appId: handleWindowMinimize.
handleWindowMinimize(appId) ==
  /\ Alive
  /\ Displayed(appId)
  /\ lastOp' = [op |-> "minimize", id |-> appId, was |-> Status(appId)]
  /\ Rendered(RenderPage(Page, openApps, FALSE,
                         handleWindowMinimizeUpdater(WindowsWithUpdates, appId),
                         TRUE, "", EmptyObject, FALSE, TRUE), TRUE)
  /\ UNCHANGED closedPos

\* Mouse down on the title bar of the frame of appId: handleMouseDown, with
\* off = (clientX - rect.left, clientY - rect.top).
handleMouseDown(appId, off) ==
  /\ Alive
  /\ Displayed(appId)
  /\ Rendered(RenderPage(Page, openApps, FALSE, WindowsWithUpdates, FALSE, appId,
                         [isDragging |-> TRUE, dragOffset |-> off],
                         TRUE, TRUE), TRUE)
  /\ UNCHANGED << lastOp, closedPos >>

\* A mousemove on the document, to e: the handleMouseMove of every frame
\* whose listeners are attached.  setPosition is queued, and the frame
\* renders in a later task.
DocumentMouseMove(e) ==
  /\ Alive
  /\ \E a \in DOMAIN frames : Listening(frames[a])
  /\ positionUpdates' =
       LET moved == { a \in DOMAIN frames :
                        frames[a].isDragging /\ ~frames[a].isMaximized }
       IN [a \in DOMAIN positionUpdates \cup moved |->
             IF a \in moved THEN handleMouseMove(frames[a], e).position
             ELSE positionUpdates[a]]
  /\ UNCHANGED << openApps, windows, highestZIndex, prevOpenAppsRef,
                  effectUpdates, animatingUpdates, timers, openEffects,
                  listeners, staleLanes, frames, failure, lastOp, closedPos,
                  dockVars >>

\* The page after the handleMouseUp listeners ls have run, one after the
\* other, from the state p: each is a task of its own for React, which
\* renders before the next listener runs.  A listener that an earlier render
\* has removed does not run.
RECURSIVE MouseUpRenders(_, _)
MouseUpRenders(p, ls) ==
  IF ls = << >> THEN p
  ELSE LET a == Head(ls)
       IN MouseUpRenders(
            IF a \notin Elems(p.listeners) THEN p
            ELSE IF ~Listening(p.frames[a]) /\ NoLanes(p, a) THEN p
            ELSE RenderPage(p, p.openApps, FALSE,
                            ApplyUpdates(p.effectUpdates, p.windows), FALSE,
                            a,
                            [k \in {"isDragging", "isResizing"} |->
                               handleMouseUp(p.frames[a])[k]],
                            Listening(p.frames[a]), TRUE),
            Tail(ls))

\* A mouseup on the document: the handleMouseUp of every frame whose
\* listeners are attached, in the order they were added.
DocumentMouseUp ==
  /\ Alive
  /\ listeners # << >>
  /\ Rendered(MouseUpRenders(Page, listeners), TRUE)
  /\ UNCHANGED << lastOp, closedPos >>

\* Mouse down on the resize handle of the frame of appId, which is rendered
\* only while the frame is not maximized: setIsResizing(true).  When the
\* frame is resizing already, React renders only if the frame has an update
\* queued or took one in the last render that went through it.
handleResizeMouseDown(appId) ==
  /\ Alive
  /\ Displayed(appId)
  /\ ~frames[appId].isMaximized
  /\ IF frames[appId].isResizing /\ NoLanes(Page, appId)
     THEN UNCHANGED << pageVars, dockVars >>
     ELSE Rendered(RenderPage(Page, openApps, FALSE, WindowsWithUpdates, FALSE,
                              appId, [isResizing |-> TRUE],
                              ~frames[appId].isResizing, TRUE), TRUE)
  /\ UNCHANGED << lastOp, closedPos >>

\* A click on the green button of the frame of appId: handleMaximize, whose
\* onMaximize (handleWindowMaximize) only writes to the console.
handleMaximize(appId) ==
  /\ Alive
  /\ Displayed(appId)
  /\ Rendered(RenderPage(Page, openApps, FALSE, WindowsWithUpdates, FALSE, appId,
                         [isMaximized |-> ~frames[appId].isMaximized],
                         TRUE, TRUE), TRUE)
  /\ UNCHANGED << lastOp, closedPos >>

\* React removes the dock; sync: the cleanup of its effect runs before the
\* task ends.
Unmount(sync) ==
  /\ dockPhase # "unmounted"
  /\ DockUnmount(sync)
  /\ UNCHANGED wmVars

Init == InitDesktop /\ InitDock

\* The desktop driven through the dock and the window buttons.
Next ==
  \/ \E a \in AppIds : handleAppClick(a)
  \/ \E a \in AppIds : handleWindowClose(a)
  \/ \E a \in AppIds : handleWindowMinimize(a)
  \/ \E a \in AppIds : TimerFires(a)
  \/ RenderQueuedUpdates
  \/ FlushPassiveEffects

Spec == Init /\ [][Next]_vars

\* The desktop with its windows opened, closed and dragged, on the first
\* NumDragApps dock entries.
DragAppIds == { sampleApps[i].id : i \in 1..Min(NumDragApps, Len(sampleApps)) }

NextDrag ==
  \/ \E a \in DragAppIds : handleAppClick(a)
  \/ \E a \in DragAppIds : handleWindowClose(a)
  \/ \E a \in DragAppIds, off \in DragOffsets : handleMouseDown(a, off)
  \/ \E e \in Pointers : DocumentMouseMove(e)
  \/ DocumentMouseUp
  \/ \E a \in DragAppIds : TimerFires(a)
  \/ RenderQueuedUpdates
  \/ FlushPassiveEffects

SpecDrag == Init /\ [][NextDrag]_vars

\* One window, that of the first dock entry, driven through its dock icon,
\* its buttons and the mouse, with every pointer place.
FrameAppIds == { sampleApps[1].id }

\* Where the title bar is grabbed in that window.
GrabPlaces ==
  << [x |-> Px(20), y |-> Px(10)],
     [x |-> Px(400), y |-> Px(16)],
     [x |-> Px(790), y |-> Px(30)] >>

Grabs == { GrabPlaces[i] : i \in 1..Min(NumGrabs, Len(GrabPlaces)) }

NextFrame ==
  \/ \E a \in FrameAppIds : handleAppClick(a)
  \/ \E a \in FrameAppIds : handleWindowClose(a)
  \/ \E a \in FrameAppIds : handleWindowMinimize(a)
  \/ \E a \in FrameAppIds : handleMaximize(a)
  \/ \E a \in FrameAppIds, off \in Grabs : handleMouseDown(a, off)
  \/ \E a \in FrameAppIds : handleResizeMouseDown(a)
  \/ \E e \in Elems(PointerPlaces) : DocumentMouseMove(e)
  \/ DocumentMouseUp
  \/ \E a \in FrameAppIds : TimerFires(a)
  \/ RenderQueuedUpdates
  \/ FlushPassiveEffects

SpecFrame == Init /\ [][NextFrame]_vars

\* The desktop with the first NumOpenApps dock entries opened, in any order.
\* With clicks alone the effect on [openApps] queues nothing.
OpenAppIds == { sampleApps[i].id : i \in 1..Min(NumOpenApps, Len(sampleApps)) }

NextOpen == \E a \in OpenAppIds : handleAppClick(a)

SpecOpen == Init /\ [][NextOpen]_vars

\* The desktop with clicks that name an application the page does not list
\* (handleAppClick takes any string), next to the first NumGetApps dock
\* entries.
GetAppIds ==
  { sampleApps[i].id : i \in 1..Min(NumGetApps, Len(sampleApps)) } \cup UnknownIds

NextGet ==
  \/ \E a \in GetAppIds : handleAppClick(a)
  \/ \E a \in GetAppIds : handleWindowClose(a)
  \/ \E a \in GetAppIds : handleWindowMinimize(a)
  \/ \E a \in GetAppIds : TimerFires(a)
  \/ RenderQueuedUpdates
  \/ FlushPassiveEffects

SpecGet == Init /\ [][NextGet]_vars

\* const padding = Math.max(8, baseIconSize * 0.12), in pixels
dockPadding == Max(8, (baseIconSize * 12) \div 100)

\* The values of mouseX the first pointer move over the dock can set, in
\* whole pixels: e.clientX - rect.left - padding, from the left edge on.
MagPointers == (0 - dockPadding)..MaxPointerX

\* The dock after its first render followed by at most one pointer move:
\* mouseX is null or the pointer is at one of MagPointers, the scales are
\* still at rest and the start/stop effect has requested a frame.
InitMag ==
  /\ InitDesktop
  /\ mouseX \in {<< >>} \cup { << x >> : x \in MagPointers }
  /\ renderedMouseX = mouseX
  /\ currentScales = RestScales
  /\ currentPositions = calculatePositions(RestScales)
  /\ animationFrameRef = IF mouseX = << >> THEN 2 ELSE 3
  /\ pendingFrames = { [id |-> animationFrameRef,
                        fn |-> Callback(mouseX, RestScales,
                                        calculatePositions(RestScales))] }
  /\ lastFrameId = animationFrameRef
  /\ moves = IF mouseX = << >> THEN 0 ELSE 1
  /\ framesSinceRender = 0
  /\ dockPhase = "settled"
  /\ dockEffect = << >>

\* A requested frame runs, while fewer than MaxFramesPerRender have run
\* since the dock last rendered.
FrameRuns ==
  /\ framesSinceRender < MaxFramesPerRender
  /\ \E f \in pendingFrames : RunFrame(f)

\* With the pointer held there, the frames, the renders and the effects run
\* in any order.
NextMag ==
  \/ FrameRuns
  \/ RenderQueuedUpdates
  \/ FlushPassiveEffects

SpecMag == InitMag /\ [][NextMag]_vars

\* The dock under pointer moves, pointer leaves, animation frames, renders
\* and their effects, in any order.
NextDock ==
  \/ FrameRuns
  \/ \E x \in DockPointers, throttled \in BOOLEAN : dockHandleMouseMove(x, throttled)
  \/ handleMouseLeave
  \/ RenderQueuedUpdates
  \/ FlushPassiveEffects

SpecDock == Init /\ [][NextDock]_vars

\* The browser runs every animation frame that stays requested, and React
\* renders the updates that are queued and runs the effects that wait.
SpecDockFair ==
  /\ SpecDock
  /\ WF_vars(FrameRuns)
  /\ WF_vars(RenderQueuedUpdates)
  /\ WF_vars(FlushPassiveEffects)

\* SpecDockFair with its fairness conditions written out.  A frame can run
\* exactly when one is requested and fewer than MaxFramesPerRender have run
\* since the last render, and running one always changes the requested
\* frames; a render can happen exactly when updates of the dock are
\* queued, and it always changes dockPhase or renderedMouseX; the effects
\* can run exactly when one waits, and dockEffect is empty afterwards.  So
\* weak fairness says of each that either it cannot happen infinitely often
\* or it happens infinitely often.
SpecDockFrames ==
  /\ SpecDock
  /\ \/ []<>(pendingFrames = {} \/ framesSinceRender = MaxFramesPerRender)
     \/ []<><<FrameRuns>>_vars
  /\ \/ []<>(~DockRenderPending)
     \/ []<><<RenderQueuedUpdates>>_vars
  /\ \/ []<>(dockEffect = << >>)
     \/ []<><<FlushPassiveEffects>>_vars

\* The dock with its unmount as well.
NextSteps ==
  \/ NextDock
  \/ \E sync \in BOOLEAN : Unmount(sync)

SpecSteps == Init /\ [][NextSteps]_vars

---------------------------------------------------------------------------
(* Claims about the window manager *)

\* The step is the operation op on a window whose status before it was was.
Did(op, was) ==
  /\ lastOp' # lastOp
  /\ lastOp'.op = op
  /\ lastOp'.was = was

\* C2: when an application's window is open and minimized, a click on its
\* dock icon leaves its record with isMinimized = false.
C2_ReopenClearsMinimized ==
  (lastOp.op = "click" /\ lastOp.was = "minimized")
    => ~windows[lastOp.id].isMinimized

\* C3: a window that was dragged, closed and reopened is shown where it was
\* shown when it was closed.
C3_GeometrySurvivesReopen ==
  [][Did("click", "closed")
       => frames'[lastOp'.id].position = closedPos[lastOp'.id]]_vars

\* C4: no operation changes the stored position or size of an existing
\* record, so a record has after a close and a reopen the position and size
\* it had before the close, whatever windows were created in between.
C4_ReopenKeepsStoredGeometry ==
  [][\A a \in DOMAIN windows :
       /\ a \in DOMAIN windows'
       /\ windows'[a].position = windows[a].position
       /\ windows'[a].size = windows[a].size]_vars

\* C4 witness: a window created before another one has been reopened.
C4_Witness ==
  /\ lastOp.op = "click"
  /\ lastOp.was = "closed"
  /\ Displayed(lastOp.id)
  /\ \E b \in DOMAIN windows : windows[b].zIndex > windows[lastOp.id].zIndex

\* C5: a close sets the record's open flag to false and deletes nothing: the
\* identifiers that have a record never become fewer, and each identifier
\* has the one record stored under it.
C5_CloseKeepsRecord ==
  [][/\ DOMAIN windows \subseteq DOMAIN windows'
     /\ Did("close", "shown") =>
          /\ lastOp'.id \in DOMAIN windows'
          /\ ~windows'[lastOp'.id].isOpen
     /\ \A a \in DOMAIN windows' : windows'[a].id = a]_vars

\* C5 witness: one of several windows has been closed and its record is kept.
C5_Witness ==
  /\ lastOp.op = "close"
  /\ lastOp.id \in DOMAIN windows
  /\ ~windows[lastOp.id].isOpen
  /\ Cardinality(DOMAIN windows) >= 2

\* C6: after a window is opened, for the first time or again after a close,
\* its stacking index is greater than that of every other record.
C6_OpenedWindowOnTop ==
  (lastOp.op = "click" /\ lastOp.was \in {"none", "closed"})
    => \A b \in DOMAIN windows \ {lastOp.id} :
         windows[lastOp.id].zIndex > windows[b].zIndex

\* C7: a click on an identifier without a record creates a record that is
\* open, not minimized and has the stacking index highestZIndex + 1, and
\* steps highestZIndex by one; no two records share a stacking index.
C7_NewRecordNextIndex ==
  [][/\ Did("click", "none") =>
          /\ lastOp'.id \in DOMAIN windows'
          /\ windows'[lastOp'.id].isOpen
          /\ ~windows'[lastOp'.id].isMinimized
          /\ windows'[lastOp'.id].zIndex = highestZIndex + 1
          /\ highestZIndex' = highestZIndex + 1
     /\ \A a, b \in DOMAIN windows' :
          a # b => windows'[a].zIndex # windows'[b].zIndex]_vars

\* C7 witness: a second record has been created while another is closed.
C7_Witness ==
  /\ lastOp.op = "click"
  /\ lastOp.was = "none"
  /\ \E b \in DOMAIN windows : ~windows[b].isOpen
  /\ highestZIndex >= 1002

\* C8: a new record is placed at the base position plus 30 pixels for each
\* record that existed before it, in x and in y; no two records have the
\* same stored position.
C8_NewRecordOffset ==
  [][/\ Did("click", "none") =>
          /\ lastOp'.id \in DOMAIN windows'
          /\ windows'[lastOp'.id].position =
               [x |-> baseX + Px(30) * Cardinality(DOMAIN windows),
                y |-> baseY + Px(30) * Cardinality(DOMAIN windows)]
     /\ \A a, b \in DOMAIN windows' :
          a # b => windows'[a].position # windows'[b].position]_vars

\* C8 witness: every dock entry has a record, each at its own offset.
C8_Witness ==
  /\ DOMAIN windows = AppIds
  /\ Cardinality({ windows[a].position : a \in DOMAIN windows }) = Cardinality(AppIds)
  /\ \E a \in DOMAIN windows : windows[a].position.x = baseX + Px(30)

\* C9: a click on the dock icon of a window that is open and not minimized
\* changes neither the records (the windows state with the updaters that are
\* queued), nor the stacking counter, nor openApps.
C9_ClickOnShownChangesNothing ==
  [][Did("click", "shown")
       => /\ WindowsWithUpdates' = WindowsWithUpdates
          /\ UNCHANGED << highestZIndex, openApps >>]_vars

\* C9 witness: the dock icon of a shown window has been clicked.
C9_Witness ==
  /\ lastOp.op = "click"
  /\ lastOp.was = "shown"
  /\ Displayed(lastOp.id)
  /\ Len(openApps) >= 2

\* C10: a request for the window state of an identifier that has no record
\* and is in no application list fails, creates no record and leaves the
\* stacking counter as it was.
C10_UnknownIdFails ==
  [][(/\ lastOp' # lastOp
      /\ lastOp'.op = "click"
      /\ lastOp'.id \notin DOMAIN windows
      /\ FindApp(sampleApps, lastOp'.id) = {})
       => /\ failure' = "not found"
          /\ windows' = windows
          /\ highestZIndex' = highestZIndex]_vars

---------------------------------------------------------------------------
(* Claims about the dock *)

\* No pointer is over the dock and every scale and position is within its
\* tolerance of the target.
DockAtRest ==
  /\ mouseX = << >>
  /\ ~NeedUpdate(<< >>, currentScales, currentPositions)

\* C1: once the pointer is away and every scale is within 0.002 and every
\* position within 0.1 of its target, then, unless the pointer comes back,
\* the loop stops: eventually no animation frame is requested any more.
C1_LoopStopsAtRest ==
  DockAtRest ~> ([](pendingFrames = {}) \/ mouseX # << >>)

---------------------------------------------------------------------------
(* Claims about the dock click and the open flag *)

\* C11 as stated: a click on a dock icon toggles the open flag, so a click
\* on the icon of an application that is open makes it not open.
C11_ClickToggles ==
  [][(lastOp' # lastOp /\ lastOp'.op = "click")
       => (Includes(openApps', lastOp'.id) <=> ~Includes(openApps, lastOp'.id))]_vars

\* C11 amended: a click on the icon of an application that is not open makes
\* it open, with a mounted frame and a record that is open once the queued
\* updaters are applied; a click on the icon of an application that is open
\* leaves openApps as it is, so it stays open; only the close button of its
\* window makes an application not open.
C11_ClickOpensOrKeeps ==
  [][/\ (lastOp' # lastOp /\ lastOp'.op = "click" /\ lastOp'.id \in AppIds)
          => IF Includes(openApps, lastOp'.id)
             THEN openApps' = openApps
             ELSE /\ openApps' = Append(openApps, lastOp'.id)
                  /\ lastOp'.id \in DOMAIN windows'
                  /\ FlagOf(WindowsWithUpdates', lastOp'.id, "isOpen")
                  /\ lastOp'.id \in DOMAIN frames'
     /\ \A a \in Elems(openApps) \ Elems(openApps') :
          lastOp'.op = "close" /\ lastOp'.id = a]_vars

\* C11 witness: the icon of an open application has been clicked while its
\* window was minimized, and the application is still open.
C11_Witness ==
  /\ lastOp.op = "click"
  /\ lastOp.was = "minimized"
  /\ Includes(openApps, lastOp.id)
  /\ windows[lastOp.id].isOpen

\* C18: opening or closing one application never changes the minimized flag
\* of the window of a different application.
C18_OtherMinimizedKept ==
  [][(lastOp' # lastOp /\ lastOp'.op \in {"click", "close"})
       => \A b \in (DOMAIN windows \cap DOMAIN windows') \ {lastOp'.id} :
            WindowsWithUpdates'[b].isMinimized = WindowsWithUpdates[b].isMinimized]_vars

\* C19: in every settled state, where the effect on openApps has run and no
\* updater it queued waits for a render, every identifier in openApps has a
\* record with isOpen true and every record whose identifier is not in
\* openApps has isOpen false.
C19_OpenFlagConsistent ==
  (Alive /\ effectUpdates = << >>) =>
    /\ \A a \in Elems(openApps) : a \in DOMAIN windows /\ windows[a].isOpen
    /\ \A a \in DOMAIN windows \ Elems(openApps) : ~windows[a].isOpen

\* C19 witness: a closed window has been opened again, and its updater
\* rendered, while the record of another application is closed.
C19_Witness ==
  /\ effectUpdates = << >>
  /\ lastOp.op = "click"
  /\ lastOp.was = "closed"
  /\ Includes(openApps, lastOp.id)
  /\ windows[lastOp.id].isOpen
  /\ \E b \in DOMAIN windows \ Elems(openApps) : ~windows[b].isOpen

---------------------------------------------------------------------------
(* Claims about the window frame *)

Clamped(v, lo, hi) == IF v < lo THEN lo ELSE IF v > hi THEN hi ELSE v

\* C20: a pointer move to e sets the position of a frame that is being
\* dragged and is not maximized (the position state its next render shows)
\* to e - dragOffset, held within 0 <= x <= containerWidth - width and
\* 0 <= y <= containerHeight - height (the container is 520/0.45 by
\* 360/0.45 pixels); it leaves the position of a frame that is maximized or
\* not being dragged as it was.
C20_DragClamped ==
  [][\A e \in Elems(PointerPlaces) :
       DocumentMouseMove(e) =>
         \A a \in DOMAIN frames :
           LET f == frames[a]
               maxX == 10400 - f.size.width
               maxY == 7200 - f.size.height
           IN IF f.isDragging /\ ~f.isMaximized
              THEN /\ FramesWithUpdates'[a].position =
                        [x |-> Clamped(e.x - f.dragOffset.x, 0, maxX),
                         y |-> Clamped(e.y - f.dragOffset.y, 0, maxY)]
                   /\ FramesWithUpdates'[a].position.x \in 0..maxX
                   /\ FramesWithUpdates'[a].position.y \in 0..maxY
              ELSE FramesWithUpdates'[a].position
                     = FramesWithUpdates[a].position]_vars

\* C20 witness: a drag has been stopped at the far corner of the container,
\* and the frame has rendered there.
C20_Witness ==
  \E a \in DOMAIN frames :
    /\ a \notin DOMAIN positionUpdates
    /\ frames[a].isDragging
    /\ ~frames[a].isMaximized
    /\ frames[a].dragOffset = [x |-> Px(20), y |-> Px(10)]
    /\ frames[a].position = [x |-> 10400 - frames[a].size.width,
                             y |-> 7200 - frames[a].size.height]

\* The distance of icon index's resting center from the pointer at x.
IconDistance(index, x) ==
  Abs((index - 1) * (baseIconSize + baseSpacing) + baseIconSize \div 2 - x)

\* C12: the target scale of an icon whose resting center is outside the
\* window of 300 pixels centered on the pointer is exactly the minimum 1.0;
\* inside the window it does not increase with the distance from the
\* pointer, whichever side the icon is on, and is the maximum 1.8 at
\* distance 0; with no pointer every target is the minimum.
C12_TargetMagnification ==
  LET target == calculateTargetMagnification(mouseX)
  IN IF mouseX = << >>
     THEN \A i \in DockIcons : target[i] = minScale
     ELSE LET x == mouseX[1]
          IN \A i \in DockIcons :
               LET d == IconDistance(i, x)
                   center == (i - 1) * (baseIconSize + baseSpacing) + baseIconSize \div 2
               IN /\ target[i] \in minScale..maxScale
                  /\ 2 * d > effectWidth => target[i] = minScale
                  /\ d = 0 => target[i] = maxScale
                  /\ \A j \in DockIcons :
                       IconDistance(j, x) > d => target[j] <= target[i]
                  /\ \A y \in {center - (d + 1), center + (d + 1)} :
                       calculateTargetMagnification(<< y >>)[i] <= target[i]

\* C12 witness: with the pointer over the dock one icon is outside the
\* window, with the minimum as its target, and another is inside it and is
\* growing toward a target between the minimum and the maximum.
C12_Witness ==
  /\ mouseX # << >>
  /\ \E i, j \in DockIcons :
       /\ 2 * IconDistance(i, mouseX[1]) > effectWidth
       /\ calculateTargetMagnification(mouseX)[i] = minScale
       /\ 2 * IconDistance(j, mouseX[1]) < effectWidth
       /\ calculateTargetMagnification(mouseX)[j] > minScale
       /\ calculateTargetMagnification(mouseX)[j] < maxScale
       /\ currentScales[j] > minScale

---------------------------------------------------------------------------
(* Claims about the dock animation *)

\* One step of a value from current to new toward target with the factor
\* lerpFactor (in hundredths): new is current + lerpFactor * (target -
\* current) to within one unit of the arithmetic, and lies between current
\* and target.
StepToward(current, new, target, lerpFactor) ==
  /\ Abs(100 * (new - current) - lerpFactor * (target - current)) < 100
  /\ current <= target => (current <= new /\ new <= target)
  /\ current >= target => (target <= new /\ new <= current)

\* C13 as stated: each step moves every scale and every position that
\* differs from its target strictly closer to the target, and not past it.
C13_StepStrictlyCloser ==
  [][\A f \in pendingFrames :
       RunFrame(f) =>
         LET targetScales == calculateTargetMagnification(f.fn.mouseX)
             targetPositions == calculatePositions(targetScales)
             factor == LerpFactor(f.fn.mouseX)
             Closer(current, new, target) ==
               current # target =>
                 /\ StepToward(current, new, target, factor)
                 /\ Abs(target - new) < Abs(target - current)
         IN /\ \A i \in DockIcons :
                 Closer(currentScales[i], currentScales'[i], targetScales[i])
            /\ \A i \in DockIcons :
                 Closer(currentPositions[i], currentPositions'[i],
                        targetPositions[i])]_vars

\* C13 amended: each step sets every scale and every position to current +
\* factor * (target - current), with factor 0.2 while the pointer is over
\* the dock and 0.12 otherwise; the new value is never farther from the
\* target and never past it, a value that is at its target stays there, and
\* a value farther from its target than the tolerance of the loop (0.002 for
\* a scale, 0.1 for a position) moves strictly closer.
C13_StepTowardTarget ==
  [][\A f \in pendingFrames :
       RunFrame(f) =>
         LET targetScales == calculateTargetMagnification(f.fn.mouseX)
             targetPositions == calculatePositions(targetScales)
             factor == LerpFactor(f.fn.mouseX)
             Closer(current, new, target, tolerance) ==
               /\ StepToward(current, new, target, factor)
               /\ current = target => new = target
               /\ Abs(target - current) > tolerance
                    => Abs(target - new) < Abs(target - current)
         IN /\ \A i \in DockIcons :
                 Closer(currentScales[i], currentScales'[i], targetScales[i],
                        (2 * FP) \div 1000)
            /\ \A i \in DockIcons :
                 Closer(currentPositions[i], currentPositions'[i],
                        targetPositions[i], FP \div 10)]_vars

\* C13 witness: with the pointer over the dock a scale and a position are
\* on their way, strictly between where they rest and their targets and
\* farther from the targets than the tolerances.
C13_Witness ==
  /\ mouseX # << >>
  /\ \E i \in DockIcons :
       /\ currentScales[i] > minScale
       /\ currentScales[i]
            < calculateTargetMagnification(mouseX)[i] - (2 * FP) \div 1000
  /\ \E i \in DockIcons :
       /\ currentPositions[i] > calculatePositions(RestScales)[i]
       /\ currentPositions[i]
            < calculatePositions(calculateTargetMagnification(mouseX))[i]
                - FP \div 10

\* C14: every current scale is within [minimum, maximum] = [1.0, 1.8] in
\* every reachable state of the dock.
C14_ScaleBounds ==
  \A i \in DOMAIN currentScales :
    minScale <= currentScales[i] /\ currentScales[i] <= maxScale

\* C14 witness: the pointer has left after an icon had grown to more than
\* 1.7, and the icon is shrinking again.
C14_Witness ==
  /\ mouseX = << >>
  /\ moves >= 2
  /\ \E i \in DockIcons : currentScales[i] > (17 * FP) \div 10

\* C16: when the pointer has left the dock then, unless it comes back, with
\* the requested frames run and the queued updates rendered fairly every
\* scale comes within 0.002 of the minimum and every position within 0.1 of
\* its resting place, and from some moment on they stay within those
\* tolerances.
C16_ConvergesToRest ==
  (mouseX = << >>) ~> ([]DockAtRest \/ mouseX # << >>)

\* C16 witness: the pointer has been over the dock and has left, and the
\* dock is within the tolerances of rest without being exactly at rest.
C16_Witness ==
  /\ DockAtRest
  /\ moves >= 2
  /\ \E i \in DockIcons : currentScales[i] > minScale
  /\ \E i \in DockIcons : currentPositions[i] # calculatePositions(RestScales)[i]

\* C17 as stated: at most one animation frame is requested at any moment,
\* however frames, pointer moves, pointer leaves and renders interleave, and
\* from the moment React has removed the dock none is.
C17_NoFrameOnceUnmounted ==
  /\ Cardinality(pendingFrames) <= 1
  /\ dockPhase = "unmounted" => pendingFrames = {}

\* C17 amended: at most one animation frame is requested at any moment,
\* however frames, pointer moves, pointer leaves, renders and their effects
\* interleave, and the requested frame is the one in animationFrameRef; once
\* React has removed the dock and the cleanup of its effect has run none is
\* requested.
C17_OneFramePending ==
  /\ Cardinality(pendingFrames) <= 1
  /\ \A f \in pendingFrames : f.id = animationFrameRef
  /\ (dockPhase = "unmounted" /\ dockEffect = << >>) => pendingFrames = {}

\* C17 witness: React has removed the dock with the pointer over it and the
\* icons magnified, after frames had run and asked for the next one, and
\* the cleanup of the effect has run: no frame is requested.
C17_Witness ==
  /\ dockPhase = "unmounted"
  /\ dockEffect = << >>
  /\ pendingFrames = {}
  /\ mouseX # << >>
  /\ \E i \in DockIcons : currentScales[i] > minScale
  /\ animationFrameRef # 0

---------------------------------------------------------------------------
(* Claims about window positions and the dock layout *)

\* position lies within the bounds that dragging enforces for a window of
\* this size: 0 <= x <= containerWidth - width, 0 <= y <= containerHeight -
\* height, the container being 520/0.45 by 360/0.45 pixels.
InContainer(position, size) ==
  /\ 0 <= position.x /\ position.x <= 10400 - size.width
  /\ 0 <= position.y /\ position.y <= 7200 - size.height

\* C21: the position of every window, in its record and in its frame, lies
\* within the container bounds that dragging enforces, the position
\* computed for a new record included, however many dock entries are open.
C21_PositionInContainer ==
  /\ \A a \in DOMAIN windows : InContainer(windows[a].position, windows[a].size)
  /\ \A a \in DOMAIN frames : InContainer(frames[a].position, frames[a].size)

\* C22 as stated: the current center positions equal the layout computed
\* from the current scales.
C22_PositionsEqualLayout ==
  currentPositions = calculatePositions(currentScales)

\* The rounding error the center of icon i can have gathered against the
\* layout of the current scales: a step rounds each of the i scales before
\* it by less than one unit, which is up to 64 * (i - 1) + 32 units in the
\* layout, and the center by less than one unit, and with the smaller
\* factor 0.12 the errors of the steps add up to at most 1 / 0.12 times that.
LayoutRounding(i) ==
  ((baseIconSize * (i - 1) + baseIconSize \div 2 + 1) * 100) \div 12

\* C22 amended: the current center positions equal the layout computed
\* from the current scales up to the rounding error of the arithmetic, and
\* adjacent icons never overlap: the right edge of an icon is at least 7
\* pixels left of the left edge of the next one.
C22_LayoutConsistent ==
  /\ DOMAIN currentPositions = DOMAIN currentScales
  /\ \A i \in DOMAIN currentPositions :
       Abs(currentPositions[i] - calculatePositions(currentScales)[i])
         <= LayoutRounding(i)
  /\ \A i \in DOMAIN currentPositions :
       i + 1 \in DOMAIN currentPositions =>
         currentPositions[i + 1] - (baseIconSize * currentScales[i + 1]) \div 2
           >= currentPositions[i] + (baseIconSize * currentScales[i]) \div 2
                + (baseSpacing - 1) * FP

\* C22 witness: with the pointer over the dock the icons are magnified and
\* the centers differ from the layout of the scales by rounding only.
C22_Witness ==
  /\ mouseX # << >>
  /\ \E i \in DockIcons : currentScales[i] > (15 * FP) \div 10
  /\ currentPositions # calculatePositions(currentScales)
  /\ \A i \in DOMAIN currentPositions :
       Abs(currentPositions[i] - calculatePositions(currentScales)[i])
         <= LayoutRounding(i)

====
